---------------------------- MODULE Spec2Model ----------------------------
(***************************************************************************)
(* Model of dwd_influx.py: the loader that fetches DWD open climate data   *)
(* (multi-annual monthly means, 10-minute precipitation and temperature),  *)
(* decodes the semicolon-delimited text and writes points to InfluxDB.     *)
(*                                                                         *)
(* Text is modelled as TLA+ strings, character by character: the Python    *)
(* string methods the program uses (strip, split, splitlines, replace,     *)
(* startswith, endswith, zfill), float(), int(), datetime.strptime() and   *)
(* csv.reader are operators that compute what the Python ones compute on   *)
(* the input alphabet used here (digits, sign, '.', ',', ';', '"', space,  *)
(* letters, '_', '-', newline).                                            *)
(***************************************************************************)
EXTENDS Integers, Sequences, FiniteSets, TLC

(***************************************************************************)
(* Python string methods                                                   *)
(***************************************************************************)
Char(s, i) == SubSeq(s, i, i)

SetMin(S) == CHOOSE x \in S : \A y \in S : x <= y

SetMax(S) == CHOOSE x \in S : \A y \in S : x >= y

Whitespace == {" ", "\t", "\n", "\r"}

\* str.strip()
Strip(s) ==
    LET idx == {i \in 1..Len(s) : Char(s, i) \notin Whitespace}
    IN  IF idx = {} THEN "" ELSE SubSeq(s, SetMin(idx), SetMax(idx))

\* str.startswith(p)
StartsWith(s, p) == Len(p) <= Len(s) /\ SubSeq(s, 1, Len(p)) = p

\* str.endswith(p)
EndsWith(s, p) == Len(p) <= Len(s) /\ SubSeq(s, Len(s) - Len(p) + 1, Len(s)) = p

\* str.split(d) for a one-character separator d: the pieces between the
\* occurrences of d
Split(s, d) ==
    LET ds     == {i \in 1..Len(s) : Char(s, i) = d}
        n      == Cardinality(ds)
        cut(k) == IF k = 0 THEN 0
                  ELSE IF k = n + 1 THEN Len(s) + 1
                  ELSE CHOOSE p \in ds : Cardinality({q \in ds : q < p}) = k - 1
    IN  [k \in 1..(n + 1) |-> SubSeq(s, cut(k - 1) + 1, cut(k) - 1)]

\* str.splitlines(): no trailing empty line
Splitlines(content) ==
    LET ls == Split(content, "\n")
    IN  IF ls[Len(ls)] = "" THEN SubSeq(ls, 1, Len(ls) - 1) ELSE ls

\* str.replace(a, b) for one-character a and b
RECURSIVE Replace(_, _, _)
Replace(s, a, b) ==
    IF Len(s) = 0 THEN ""
    ELSE (IF Char(s, 1) = a THEN b ELSE Char(s, 1)) \o Replace(Tail(s), a, b)

\* sep.join(parts)
RECURSIVE Join(_, _)
Join(parts, sep) ==
    IF Len(parts) = 0 THEN ""
    ELSE IF Len(parts) = 1 THEN parts[1]
    ELSE parts[1] \o sep \o Join(Tail(parts), sep)

RECURSIVE Zeros(_)
Zeros(n) == IF n <= 0 THEN "" ELSE "0" \o Zeros(n - 1)

\* str.zfill(width): zeros go after a leading sign
Zfill(s, width) ==
    IF Len(s) >= width THEN s
    ELSE IF Len(s) > 0 /\ Char(s, 1) \in {"+", "-"}
         THEN Char(s, 1) \o Zeros(width - Len(s)) \o Tail(s)
         ELSE Zeros(width - Len(s)) \o s

(***************************************************************************)
(* Python values: every value is a record with a kind, so that values of   *)
(* different Python types compare unequal.                                 *)
(***************************************************************************)
NoneV == [kind |-> "None"]

StrV(s) == [kind |-> "str", s |-> s]

\* the float m / 10^e, with m not divisible by 10 unless e = 0
FloatV(m, e) == [kind |-> "float", m |-> m, e |-> e]

DateTimeV(y, mo, d, h, mi) ==
    [kind |-> "datetime", y |-> y, mo |-> mo, d |-> d, h |-> h, mi |-> mi]

\* the outcome of an expression that may raise
Ok(v) == [exc |-> "", val |-> v]

Raise(e) == [exc |-> e, val |-> NoneV]

(***************************************************************************)
(* int(), float(), datetime(), datetime.strptime()                         *)
(***************************************************************************)
Digits == {"0", "1", "2", "3", "4", "5", "6", "7", "8", "9"}

DigitVal(c) == (CHOOSE i \in 1..10 : Char("0123456789", i) = c) - 1

AllDigits(s) == \A i \in 1..Len(s) : Char(s, i) \in Digits

RECURSIVE ParseNat(_)
ParseNat(s) ==
    IF Len(s) = 0 THEN 0
    ELSE ParseNat(SubSeq(s, 1, Len(s) - 1)) * 10 + DigitVal(Char(s, Len(s)))

\* int(s): surrounding whitespace, an optional sign, decimal digits
Signed(t) == Len(t) > 0 /\ Char(t, 1) \in {"+", "-"}

Unsigned(t) == IF Signed(t) THEN Tail(t) ELSE t

Negative(t) == Len(t) > 0 /\ Char(t, 1) = "-"

IntOf(t, body) ==
    IF Len(body) = 0 \/ ~AllDigits(body) THEN Raise("ValueError")
    ELSE Ok(IF Negative(t) THEN 0 - ParseNat(body) ELSE ParseNat(body))

PyInt(s) == IntOf(Strip(s), Unsigned(Strip(s)))

RECURSIVE Normalize(_, _)
Normalize(m, e) ==
    IF e > 0 /\ m % 10 = 0 THEN Normalize(m \div 10, e - 1) ELSE FloatV(m, e)

\* float(s): surrounding whitespace, an optional sign, digits with at most one
\* '.', at least one digit.  (Exponent, inf/nan and '_' forms are outside the
\* input alphabet.)
Mantissa(t, body, dot) ==
    IF Negative(t) THEN 0 - ParseNat(SubSeq(body, 1, dot - 1) \o SubSeq(body, dot + 1, Len(body)))
    ELSE ParseNat(SubSeq(body, 1, dot - 1) \o SubSeq(body, dot + 1, Len(body)))

FloatOf(t, body, dots) ==
    IF /\ \A i \in 1..Len(body) : Char(body, i) \in Digits \cup {"."}
       /\ Cardinality(dots) <= 1
       /\ Len(body) > Cardinality(dots)
    THEN IF dots = {}
         THEN Ok(Normalize(Mantissa(t, body, Len(body) + 1), 0))
         ELSE Ok(Normalize(Mantissa(t, body, SetMin(dots)), Len(body) - SetMin(dots)))
    ELSE Raise("ValueError")

Dots(body) == {i \in 1..Len(body) : Char(body, i) = "."}

PyFloat(s) == FloatOf(Strip(s), Unsigned(Strip(s)), Dots(Unsigned(Strip(s))))

DaysInMonth(y, mo) ==
    IF mo \in {4, 6, 9, 11} THEN 30
    ELSE IF mo = 2
         THEN (IF (y % 4 = 0 /\ y % 100 # 0) \/ y % 400 = 0 THEN 29 ELSE 28)
         ELSE 31

\* datetime(year, month, day, hour, minute): years 1 (MINYEAR) to 9999 (MAXYEAR)
PyDateTime(y, mo, d, h, mi) ==
    IF /\ y \in 1..9999
       /\ mo \in 1..12
       /\ d \in 1..DaysInMonth(y, mo)
       /\ h \in 0..23
       /\ mi \in 0..59
    THEN Ok(DateTimeV(y, mo, d, h, mi))
    ELSE Raise("ValueError")

\* datetime.strptime(s, "%Y%m%d%H%M") for a stamp of 12 digits, or one holding
\* a character that is no digit (shorter all-digit stamps, which strptime may
\* still match, are not among the inputs)
Strptime(s) ==
    IF Len(s) # 12 \/ ~AllDigits(s) THEN Raise("ValueError")
    ELSE PyDateTime(ParseNat(SubSeq(s, 1, 4)), ParseNat(SubSeq(s, 5, 6)),
                    ParseNat(SubSeq(s, 7, 8)), ParseNat(SubSeq(s, 9, 10)),
                    ParseNat(SubSeq(s, 11, 12)))

(***************************************************************************)
(* csv.reader(lines, delimiter=";"): the parser of the csv module with the *)
(* default dialect otherwise (quotechar '"', doublequote, not strict, no   *)
(* escapechar), written field by field.  The lines come from splitlines()  *)
(* and hold no line break.                                                 *)
(*   - A field that does not start with '"' runs to the next ';' or to the *)
(*     end of the line; a '"' inside it is an ordinary character.          *)
(*   - A field that starts with '"' is quoted: '""' stands for one '"',    *)
(*     a single '"' closes the quoted part, and what follows it up to the  *)
(*     next ';' or the end of the line is added as it stands.  An          *)
(*     end-of-line inside the quoted part adds nothing and does not end    *)
(*     the record: the reader goes on with the next line.                  *)
(*   - An empty line outside a quoted field is a row of no fields.         *)
(*   - At the end of the input inside a quoted part, the row read so far   *)
(*     is returned.                                                        *)
(***************************************************************************)
\* the first position >= i of character c in line, or 0
FindChar(line, c, i) ==
    LET ps == {j \in i..Len(line) : Char(line, j) = c}
    IN  IF ps = {} THEN 0 ELSE SetMin(ps)

\* the unquoted run from position ci of line li: [text, li, ci, end], with end
\* "delim" (the next field starts at li, ci) or "eol"
UnquotedTo(line, p, li, ci, acc) ==
    IF p = 0
    THEN [text |-> acc \o SubSeq(line, ci, Len(line)), li |-> li, ci |-> 0, end |-> "eol"]
    ELSE [text |-> acc \o SubSeq(line, ci, p - 1), li |-> li, ci |-> p + 1, end |-> "delim"]

CsvUnquoted(lines, li, ci, acc) ==
    UnquotedTo(lines[li], FindChar(lines[li], ";", ci), li, ci, acc)

\* the quoted part from position ci of line li (after the opening quote)
RECURSIVE CsvQuoted(_, _, _, _)
QuotedTo(lines, line, q, li, ci, acc) ==
    IF q = 0
    THEN CsvQuoted(lines, li + 1, 1, acc \o SubSeq(line, ci, Len(line)))
    ELSE IF q < Len(line) /\ Char(line, q + 1) = "\""
    THEN CsvQuoted(lines, li, q + 2, acc \o SubSeq(line, ci, q))
    ELSE CsvUnquoted(lines, li, q + 1, acc \o SubSeq(line, ci, q - 1))

CsvQuoted(lines, li, ci, acc) ==
    IF Len(acc) >= 0 /\ li > Len(lines)
    THEN [text |-> acc, li |-> li, ci |-> 0, end |-> "eof"]
    ELSE QuotedTo(lines, lines[li], FindChar(lines[li], "\"", ci), li, ci, acc)

\* the field that starts at position ci of line li
CsvField(lines, li, ci) ==
    IF ci <= Len(lines[li]) /\ Char(lines[li], ci) = "\""
    THEN CsvQuoted(lines, li, ci + 1, "")
    ELSE CsvUnquoted(lines, li, ci, "")

\* the fields of the record from position ci of line li on: [fields, li], li
\* the line the record ends in
RECURSIVE CsvFields(_, _, _, _)
FieldsAfter(lines, f, fields) ==
    IF f.end = "delim" THEN CsvFields(lines, f.li, f.ci, Append(fields, f.text))
    ELSE [fields |-> Append(fields, f.text), li |-> f.li]

CsvFields(lines, li, ci, fields) == FieldsAfter(lines, CsvField(lines, li, ci), fields)

\* Reader_iternext, repeated to the end of the input: the rows the reader yields
RECURSIVE CsvRows(_, _)
RowsAfter(lines, r) == <<r.fields>> \o CsvRows(lines, r.li + 1)

CsvRows(lines, li) ==
    IF li > Len(lines) THEN <<>>
    ELSE IF Len(lines[li]) = 0 THEN <<(<<>>)>> \o CsvRows(lines, li + 1)
    ELSE RowsAfter(lines, CsvFields(lines, li, 1, <<>>))

CsvReader(lines) == CsvRows(lines, 1)

(***************************************************************************)
(* Format decoders.  A decoder is a loop over lines (or csv rows); the     *)
(* body of the loop is an operator from one row to its outcome: a tag      *)
(* saying which branch the body took and the records appended (none or     *)
(* one).  The decoder's result is the concatenation of the records.        *)
(***************************************************************************)
Outcome(tag, recs) == [tag |-> tag, recs |-> recs]

RECURSIVE Flatten(_)
Flatten(outs) ==
    IF Len(outs) = 0 THEN <<>> ELSE outs[1].recs \o Flatten(Tail(outs))

\* float(parts[i].replace(",", ".")) of parse_multi_annual_means
MeanValue(tok) == PyFloat(Replace(tok, ",", "."))

\* One pass of the loop body of parse_multi_annual_means: Python indexes from
\* 0, so parts[k] is parts[k + 1] here and parts[15] needs 16 columns.
MultiAnnualRecord(parts, mv, yv) ==
    IF (\E k \in 1..12 : mv[k].exc # "") \/ yv.exc # ""
    THEN Outcome("malformed", <<>>)
    ELSE Outcome("record",
           <<[station_id       |-> StrV(parts[1]),
              reference_period |-> StrV(parts[2]),
              Jan |-> mv[1].val, Feb |-> mv[2].val, Mar |-> mv[3].val,
              Apr |-> mv[4].val, May |-> mv[5].val, Jun |-> mv[6].val,
              Jul |-> mv[7].val, Aug |-> mv[8].val, Sep |-> mv[9].val,
              Oct |-> mv[10].val, Nov |-> mv[11].val, Dec |-> mv[12].val,
              Year |-> yv.val]>>)

MultiAnnualParts(line, parts) ==
    IF line = "" \/ StartsWith(line, "Stations_id") THEN Outcome("skip", <<>>)
    ELSE IF Len(parts) < 16 THEN Outcome("malformed", <<>>)
    ELSE MultiAnnualRecord(parts,
                           [k \in 1..12 |-> MeanValue(parts[k + 3])],
                           IF parts[16] # "" THEN MeanValue(parts[16]) ELSE Ok(NoneV))

\* [p.strip() for p in line.split(";")]
StripAll(split) == [i \in 1..Len(split) |-> Strip(split[i])]

MultiAnnualLine(rawline) ==
    MultiAnnualParts(Strip(rawline), StripAll(Split(Strip(rawline), ";")))

MultiAnnualLines(lines) == [i \in 1..Len(lines) |-> MultiAnnualLine(lines[i])]

MultiAnnualTrace(content) == MultiAnnualLines(Splitlines(content))

parse_multi_annual_means(content) == Flatten(MultiAnnualTrace(content))

\* a decoder that converts the sentinel like any other token
TenMinValueNoSentinel(tok) == PyFloat(tok)

\* float(tok) if tok != "-999" else None, of the two 10-minute decoders
TenMinValue(tok) == IF tok # "-999" THEN PyFloat(tok) ELSE Ok(NoneV)

\* One pass of the loop body of parse_10min_precip
PrecipRecord(station_id, dt, precip_val) ==
    IF dt.exc # "" \/ precip_val.exc # "" THEN Outcome("malformed", <<>>)
    ELSE IF precip_val.val = NoneV THEN Outcome("missing", <<>>)
    ELSE Outcome("record",
           <<[station_id   |-> StrV(station_id),
              time         |-> dt.val,
              precip_10min |-> precip_val.val]>>)

PrecipRow(row) ==
    IF Len(row) = 0 \/ StartsWith(row[1], "STATIONS_ID") THEN Outcome("skip", <<>>)
    ELSE IF Len(row) < 5 THEN Outcome("malformed", <<>>)
    ELSE PrecipRecord(Strip(row[1]), Strptime(Strip(row[2])), TenMinValue(Strip(row[5])))

PrecipRows(reader) == [i \in 1..Len(reader) |-> PrecipRow(reader[i])]

PrecipTrace(csv_content) == PrecipRows(CsvReader(Splitlines(csv_content)))

parse_10min_precip(csv_content) == Flatten(PrecipTrace(csv_content))

\* One pass of the loop body of parse_10min_temp
\* a decoder that drops a row as soon as one of the two values is missing
TempRecordEitherMissing(station_id, dt, temp_val, rh_val) ==
    IF dt.exc # "" \/ temp_val.exc # "" \/ rh_val.exc # ""
    THEN Outcome("malformed", <<>>)
    ELSE IF temp_val.val = NoneV \/ rh_val.val = NoneV
    THEN Outcome("missing", <<>>)
    ELSE Outcome("record",
           <<[station_id        |-> StrV(station_id),
              time              |-> dt.val,
              temperature_10min |-> temp_val.val,
              humidity_10min    |-> rh_val.val]>>)

TempRecord(station_id, dt, temp_val, rh_val) ==
    IF dt.exc # "" \/ temp_val.exc # "" \/ rh_val.exc # ""
    THEN Outcome("malformed", <<>>)
    ELSE IF temp_val.val = NoneV /\ rh_val.val = NoneV
    THEN Outcome("missing", <<>>)
    ELSE Outcome("record",
           <<[station_id        |-> StrV(station_id),
              time              |-> dt.val,
              temperature_10min |-> temp_val.val,
              humidity_10min    |-> rh_val.val]>>)

TempRow(row) ==
    IF Len(row) = 0 \/ StartsWith(row[1], "STATIONS_ID") THEN Outcome("skip", <<>>)
    ELSE IF Len(row) < 7 THEN Outcome("malformed", <<>>)
    ELSE TempRecord(Strip(row[1]), Strptime(Strip(row[2])),
                    TenMinValue(Strip(row[5])), TenMinValue(Strip(row[7])))

TempRows(reader) == [i \in 1..Len(reader) |-> TempRow(reader[i])]

TempTrace(csv_content) == TempRows(CsvReader(Splitlines(csv_content)))

parse_10min_temp(csv_content) == Flatten(TempTrace(csv_content))

(***************************************************************************)
(* Multi-annual synthesis: the loop over the decoded rows in               *)
(* fetch_multi_annual_means.  station_ids is the sequence of configured    *)
(* ids, or <<>> for the default None (both are false in "if station_ids"). *)
(***************************************************************************)
MonthNames ==
    <<"Jan", "Feb", "Mar", "Apr", "May", "Jun", "Jul", "Aug", "Sep", "Oct", "Nov", "Dec">>

InSeq(x, seq) == \E i \in 1..Len(seq) : seq[i] = x

\* int(ref_period.split("-")[0]) under "except ValueError | TypeError": when
\* int() raises, the except clause is evaluated; the union of two exception
\* classes is no exception class (and no operand of | before Python 3.10), so
\* a TypeError is raised from the handler and nothing is caught.
HandlerOf(r) == IF r.exc # "" THEN Raise("TypeError") ELSE r

StartYear(ref_period) == HandlerOf(PyInt(Split(ref_period, "-")[1]))

\* datetime(start_year, month_num, 1), outside the try block
SyntheticTs(start_year, month_num) == PyDateTime(start_year, month_num, 1, 0, 0)

\* One pass of the loop body: the twelve point dicts of a row, or the
\* exception that leaves the loop
SynthPoints(row, ts) ==
    IF \E m \in 1..12 : ts[m].exc # ""
    THEN [tag |-> "raise", recs |-> <<>>, exc |-> "ValueError"]
    ELSE [tag |-> "points", exc |-> "",
          recs |-> [m \in 1..12 |->
                     [station_id       |-> row.station_id,
                      time             |-> ts[m].val,
                      reference_period |-> row.reference_period,
                      value            |-> row[MonthNames[m]]]]]

SynthFrom(row, sy) ==
    IF sy.exc # "" THEN [tag |-> "raise", recs |-> <<>>, exc |-> sy.exc]
    ELSE SynthPoints(row, [m \in 1..12 |-> SyntheticTs(sy.val, m)])

SynthRow(row, station_ids) ==
    IF Len(station_ids) # 0 /\ ~InSeq(row.station_id.s, station_ids)
    THEN [tag |-> "filtered", recs |-> <<>>, exc |-> ""]
    ELSE SynthFrom(row, StartYear(row.reference_period.s))

\* The passes of the loop, up to the one that raises
RECURSIVE SynthTrace(_, _)
SynthAfter(o, rows, station_ids) ==
    IF o.exc # "" THEN <<o>> ELSE <<o>> \o SynthTrace(Tail(rows), station_ids)

SynthTrace(rows, station_ids) ==
    IF Len(rows) = 0 THEN <<>>
    ELSE SynthAfter(SynthRow(rows[1], station_ids), rows, station_ids)

SynthExc(trace) == IF Len(trace) = 0 THEN "" ELSE trace[Len(trace)].exc

(***************************************************************************)
(* Point builder: the loop of write_points_to_influx                       *)
(***************************************************************************)
\* bool(v)
Truthy(v) ==
    CASE v.kind = "None" -> FALSE
      [] v.kind = "str" -> v.s # ""
      [] v.kind = "float" -> v.m # 0
      [] OTHER -> TRUE

\* dict.pop(key, None)
Pop(entry, key) == IF key \in DOMAIN entry THEN entry[key] ELSE NoneV

\* the dict left after the pops
Popped(entry, keys) == [k \in DOMAIN entry \ keys |-> entry[k]]

NoTags == [k \in {} |-> NoneV]

\* One pass of the loop body: a Point with its tags, time and fields.
\* station_map is a function from station id to name (the dict of main).
PointOf(station_id, tstamp, rest, measurement, station_map) ==
    [measurement |-> measurement,
     tags   |-> IF ~Truthy(station_id) THEN NoTags
                ELSE IF /\ DOMAIN station_map # {}
                        /\ station_id.s \in DOMAIN station_map
                        /\ station_map[station_id.s] # ""
                THEN [k \in {"station_id", "station_name"} |->
                        IF k = "station_id" THEN station_id
                        ELSE StrV(station_map[station_id.s])]
                ELSE [k \in {"station_id"} |-> station_id],
     time   |-> IF Truthy(tstamp) THEN tstamp ELSE NoneV,
     fields |-> rest]

\* a builder that reads station_id and time without removing them from the entry
BuildPointKeepAll(entry, measurement, station_map) ==
    PointOf(Pop(entry, "station_id"), Pop(entry, "time"), entry, measurement, station_map)

BuildPoint(entry, measurement, station_map) ==
    PointOf(Pop(entry, "station_id"), Pop(entry, "time"),
            Popped(entry, {"station_id", "time"}), measurement, station_map)

BuildPoints(data_list, measurement, station_map) ==
    [i \in 1..Len(data_list) |-> BuildPoint(data_list[i], measurement, station_map)]

(***************************************************************************)
(* The sink.  write_api.write serializes each Point to line protocol: a    *)
(* field whose value is None is left out, and a point left with no field   *)
(* is not sent.  The store keeps one point per (measurement, tag set,      *)
(* instant); a later write of the same key replaces the earlier one.       *)
(***************************************************************************)
LineOf(p) ==
    [p EXCEPT !.fields = [k \in {f \in DOMAIN p.fields : p.fields[f] # NoneV} |-> p.fields[k]]]

HasFields(l) == DOMAIN l.fields # {}

LinesOf(points) == SelectSeq([i \in 1..Len(points) |-> LineOf(points[i])], HasFields)

PointKey(p) == <<p.measurement, p.tags, p.time>>

\* the store after the lines are written in order: of the lines of one key the
\* last one stays
StoreLines(store, lines) ==
    {q \in store : \A i \in 1..Len(lines) : PointKey(lines[i]) # PointKey(q)}
    \cup {lines[i] : i \in {j \in 1..Len(lines) :
                              \A k \in (j + 1)..Len(lines) :
                                  PointKey(lines[k]) # PointKey(lines[j])}}

\* a sink that keeps every line it is sent
SinkWriteAppend(store, points) == store \cup {LinesOf(points)[i] : i \in 1..Len(LinesOf(points))}

\* write_api.write(bucket, org, record=points), under "if points"
SinkWrite(store, points) == StoreLines(store, LinesOf(points))

(***************************************************************************)
(* Source selection: file names and the historical directory listing       *)
(***************************************************************************)
PERIOD_STRINGS == <<"1961-1990", "1971-2000", "1981-2010", "1991-2020">>

\* f"10minutenwerte_{'nieder' if data_type == 'precipitation' else 'TU'}_"
TypePrefix(data_type) ==
    "10minutenwerte_" \o (IF data_type = "precipitation" THEN "nieder" ELSE "TU") \o "_"

\* list_dwd_files: the hrefs of the index page that match prefix and suffix
list_dwd_files(hrefs, prefix, suffix) ==
    SelectSeq(hrefs, LAMBDA href : href # "" /\ StartsWith(href, prefix) /\ EndsWith(href, suffix))

\* a selection that matches on the id as configured, without padding
StationFilesUnpadded(all_filenames, prefix, station_id) ==
    SelectSeq(all_filenames, LAMBDA fn : StartsWith(fn, prefix \o station_id \o "_"))

\* station_files of fetch_historical_10min_data
StationFiles(all_filenames, prefix, station_id) ==
    SelectSeq(all_filenames, LAMBDA fn : StartsWith(fn, prefix \o Zfill(station_id, 5) \o "_"))

\* zipfile_name of fetch_recent_or_now_10min_data
RecentOrNowName(data_type, station_id, period) ==
    TypePrefix(data_type) \o station_id \o (IF period = "recent" THEN "_akt.zip" ELSE "_now.zip")

\* One archive to fetch: the directory (historical, recent, now) of the data
\* type stands for base_url.
ZipStep(data_type, dir, name) ==
    [op |-> "zip", data_type |-> data_type, dir |-> dir, name |-> name]

MeansStep(data_type, period) ==
    [op |-> "means", data_type |-> data_type, dir |-> "multi_annual", name |-> period]

ListStep(data_type) ==
    [op |-> "list", data_type |-> data_type, dir |-> "historical", name |-> ""]

\* the calls of fetch_and_write_zip of fetch_recent_or_now_10min_data, in order
RecentOrNowSteps(ids, data_type, period) ==
    [i \in 1..Len(ids) |-> ZipStep(data_type, period, RecentOrNowName(data_type, ids[i], period))]

\* the downloads of fetch_multi_annual_means, in order
MeansSteps(data_type) ==
    [i \in 1..Len(PERIOD_STRINGS) |-> MeansStep(data_type, PERIOD_STRINGS[i])]

\* the calls main makes for a mode, in order
MainSteps(m, ids) ==
    CASE m = "init" ->
            MeansSteps("precipitation") \o MeansSteps("temperature")
            \o RecentOrNowSteps(ids, "precipitation", "recent")
            \o RecentOrNowSteps(ids, "temperature", "recent")
      [] m = "historical" -> <<ListStep("precipitation"), ListStep("temperature")>>
      [] m = "tracking" ->
            RecentOrNowSteps(ids, "precipitation", "now")
            \o RecentOrNowSteps(ids, "temperature", "now")

\* the calls of fetch_and_write_zip of fetch_historical_10min_data, station by
\* station, file by file
ZipSteps(data_type, dir, files) ==
    [i \in 1..Len(files) |-> ZipStep(data_type, dir, files[i])]

RECURSIVE HistoricalSteps(_, _, _)
HistoricalSteps(all_filenames, ids, data_type) ==
    IF Len(ids) = 0 THEN <<>>
    ELSE ZipSteps(data_type, "historical",
                  StationFiles(all_filenames, TypePrefix(data_type), ids[1]))
         \o HistoricalSteps(all_filenames, Tail(ids), data_type)

(***************************************************************************)
(* The per-archive pipelines: decode, (synthesize,) build points           *)
(***************************************************************************)
\* the body of the loop over the .txt members in fetch_and_write_zip
ZipProcessed(text, data_type, smap, trace) ==
    [op |-> "zip", data_type |-> data_type, text |-> text, trace |-> trace,
     parsed |-> Flatten(trace), synth |-> <<>>, exc |-> "",
     points |-> BuildPoints(Flatten(trace),
                            IF data_type = "precipitation" THEN "precip_10min"
                            ELSE "temp_10min", smap)]

ZipMember(text, data_type, smap) ==
    ZipProcessed(text, data_type, smap,
                 IF data_type = "precipitation" THEN PrecipTrace(text) ELSE TempTrace(text))

\* the body of the loop over the periods in fetch_multi_annual_means, after the
\* download
MeansProcessed(text, data_type, smap, trace, synth) ==
    [op |-> "means", data_type |-> data_type, text |-> text, trace |-> trace,
     parsed |-> Flatten(trace), synth |-> synth, exc |-> SynthExc(synth),
     points |-> IF SynthExc(synth) # "" THEN <<>>
                ELSE BuildPoints(Flatten(synth), "multi_annual_" \o data_type, smap)]

MeansFile(text, data_type, smap, ids) ==
    MeansProcessed(text, data_type, smap, MultiAnnualTrace(text),
                   SynthTrace(parse_multi_annual_means(text), ids))

(***************************************************************************)
(* The configuration: config["stations"] is a list of items (strings or    *)
(* {id, name} dicts) or something that is no list.                         *)
(***************************************************************************)
StrItem(id) == [t |-> "str", id |-> id, name |-> ""]

DictItem(id, name) == [t |-> "dict", id |-> id, name |-> name]

ListConfig(items) == [shape |-> "list", items |-> items]

ScalarConfig == [shape |-> "str", items |-> <<>>]

NoStations == [id \in {} |-> ""]

\* the dict built by "station_map[station_id] = name" over the items in order:
\* of two items with one id the later name stays
MapOf(items) ==
    [id \in {items[i].id : i \in 1..Len(items)} |->
        items[SetMax({i \in 1..Len(items) : items[i].id = id})].name]

\* main, lines 581-597: ret says whether main returned, exc which exception
\* left it.  In the fallback branch a dict item is used as a dict key, which
\* raises TypeError (unhashable).
ParseStations(cfg) ==
    IF cfg.shape # "list"
    THEN [ret |-> TRUE, exc |-> "", ids |-> <<>>, smap |-> NoStations]
    ELSE IF \A i \in 1..Len(cfg.items) : cfg.items[i].t = "dict"
    THEN [ret |-> FALSE, exc |-> "",
          ids |-> [i \in 1..Len(cfg.items) |-> cfg.items[i].id],
          smap |-> MapOf(cfg.items)]
    ELSE IF \E i \in 1..Len(cfg.items) : cfg.items[i].t = "dict"
    THEN [ret |-> FALSE, exc |-> "TypeError", ids |-> <<>>, smap |-> NoStations]
    ELSE [ret |-> FALSE, exc |-> "",
          ids |-> [i \in 1..Len(cfg.items) |-> cfg.items[i].id],
          smap |-> [id \in {cfg.items[i].id : i \in 1..Len(cfg.items)} |-> ""]]

\* the station_ids argument of main's two calls of fetch_multi_annual_means:
\* none is passed, the parameter keeps its default None
MeansStationIds(ids) == <<>>

(***************************************************************************)
(* The DWD server: what a download returns.  A remote is a choice of the   *)
(* multi-annual files, of the archives' text and of the index page; the    *)
(* server holds data for the stations 00091 and 00103.                     *)
(***************************************************************************)
ServerStations == <<"00091", "00103">>

MeansRow(station, period, jan) ==
    station \o ";" \o period \o ";DWD;" \o jan \o ";2;3;4;5;6;7;8;9;10;11;12;78;"

\* the text of Niederschlag_<period>.txt / Temperatur_<period>.txt
RemoteMeans(r, data_type, period) ==
    CASE r.means = "clean" ->
            Join(<<"Stations_id;Bezugszeitraum;Datenquelle;Jan.;Feb.",
                   MeansRow("00091", period, "42,5"),
                   "00103;" \o period \o ";DWD;1;2",
                   MeansRow("00164", period, "7,0")>>, "\n")
      [] r.means = "bad_period" ->
            Join(<<MeansRow("00091", period, "3"),
                   MeansRow("00103", "abcd-" \o period, "4"),
                   MeansRow("00103", period, "5")>>, "\n")

PrecipLine(station, stamp, rws) == station \o ";" \o stamp \o ";3;0;" \o rws \o ";0;eor"

TempLine(station, stamp, tt, rf) ==
    station \o ";" \o stamp \o ";3;0;" \o tt \o ";0;" \o rf \o ";0;eor"

\* the members of the archive of a station
RemoteMembers(r, data_type, station) ==
    LET text ==
          CASE r.zip = "plain" /\ data_type = "precipitation" ->
                  Join(<<"STATIONS_ID;MESS_DATUM;QN;RWS_DAU_10;RWS_10;RWS_IND_10;eor",
                         PrecipLine(station, "202001010000", "0.25")>>, "\n")
            [] r.zip = "plain" /\ data_type = "temperature" ->
                  Join(<<TempLine(station, "202001010000", "1.5", "-999")>>, "\n")
            [] r.zip = "dirty" /\ data_type = "precipitation" ->
                  Join(<<PrecipLine(station, "202001010000", "x"),
                         PrecipLine(station, "202001010010", "0.5"),
                         PrecipLine(station, "202001010010", "0.75")>>, "\n")
            [] r.zip = "dirty" /\ data_type = "temperature" ->
                  Join(<<TempLine(station, "202001010000", "-999", "-999"),
                         TempLine(station, "202001010010", "-999", "80")>>, "\n")
    IN  IF r.zip = "plain" THEN <<[filename |-> "produkt_zehn_min.txt", text |-> text]>>
        ELSE <<[filename |-> "Metadaten_Geraete.html", text |-> "<html>"],
               [filename |-> "produkt_zehn_min.txt", text |-> text]>>

\* the hrefs of the index page of the historical directory
RemoteListing(r, data_type) ==
    CASE r.listing = "both" ->
            <<"../",
              "10minutenwerte_nieder_00091_19950101_20201231_hist.zip",
              "10minutenwerte_TU_00091_19950101_20201231_hist.zip",
              "10minutenwerte_nieder_00103_20000101_20201231_hist.zip",
              "10minutenwerte_TU_00103_20000101_20201231_hist.zip">>
      [] r.listing = "one_station" ->
            <<"",
              "10minutenwerte_nieder_00091_19950101_19991231_hist.zip",
              "10minutenwerte_nieder_00091_20000101_20201231_hist.zip",
              "10minutenwerte_nieder_00091_20210101_20211231_akt.zip",
              "10minutenwerte_TU_00091_hist.zip",
              "10minutenwerte_TU_000910_19950101_20201231_hist.zip">>

\* the station whose archive a file name is, or "" when the server has no
\* such file
RemoteStation(r, step) ==
    LET hit == {i \in 1..Len(ServerStations) :
                  IF step.dir = "historical"
                  THEN /\ InSeq(step.name, RemoteListing(r, step.data_type))
                       /\ StartsWith(step.name,
                                     TypePrefix(step.data_type) \o ServerStations[i] \o "_")
                       /\ EndsWith(step.name, ".zip")
                  ELSE step.name = RecentOrNowName(step.data_type, ServerStations[i], step.dir)}
    IN  IF hit = {} THEN "" ELSE ServerStations[SetMin(hit)]

(***************************************************************************)
(* State                                                                   *)
(***************************************************************************)
VARIABLES
    mode,             \* args.mode: "init", "historical" or "tracking"
    stations_config,  \* config["stations"]
    remote,           \* what the server holds during the run(s)
    input,            \* the text handed to a decoder on its own
    station_ids,      \* main's station_ids
    station_map,      \* main's station_map
    status,           \* "start", "running", "done", "config_error", "aborted", "killed"
    exc,              \* the exception that left main, "" if none
    todo,             \* the downloads still to make, in order
    sink,             \* the points the InfluxDB bucket holds
    last,             \* the last file processed: text, rows, records, points
    skipped,          \* the archives this execution logged as failed and skipped
    previous,         \* how the execution before this one ended, and whether the
                      \* sink held points by then
    runs              \* the number of the process execution

vars == <<mode, stations_config, remote, input, station_ids, station_map,
          status, exc, todo, sink, last, skipped, previous, runs>>

MaxRuns == 2

\* the most archive downloads that fail in one execution while the server holds
\* the archive
MaxFailures == 1

Configs ==
    {ListConfig(<<StrItem("00103"), StrItem("00091")>>),
     ListConfig(<<DictItem("91", "Aach"), DictItem("00103", "")>>),
     ListConfig(<<StrItem("00103"), DictItem("00091", "Aach")>>),
     ListConfig(<<>>),
     ScalarConfig}

\* the remotes: the parts a mode does not read are held fixed
Remotes(m) ==
    [means   : IF m = "init" THEN {"clean", "bad_period"} ELSE {"clean"},
     zip     : {"plain", "dirty"},
     listing : IF m = "historical" THEN {"both", "one_station"} ELSE {"both"}]

NoInput == [kind |-> "none", lines |-> <<>>, text |-> "", ids |-> <<>>]

NoLast == [op |-> "none"]

NoPrevious == [status |-> "none", wrote |-> FALSE]

Init ==
    /\ mode \in {"init", "historical", "tracking"}
    /\ stations_config \in Configs
    /\ remote \in Remotes(mode)
    /\ input = NoInput
    /\ station_ids = <<>>
    /\ station_map = NoStations
    /\ status = "start"
    /\ exc = ""
    /\ todo = <<>>
    /\ sink = {}
    /\ last = NoLast
    /\ skipped = {}
    /\ previous = NoPrevious
    /\ runs = 1

(***************************************************************************)
(* Actions                                                                 *)
(***************************************************************************)
\* the status once the head of todo is done and `more` is put in its place
After(more) == IF Len(more \o Tail(todo)) = 0 THEN "done" ELSE "running"

\* main, lines 581-599, and the choice of the mode's calls
ParseConfig ==
    /\ status = "start"
    /\ \E c \in {ParseStations(stations_config)} :
          /\ station_ids' = c.ids
          /\ station_map' = c.smap
          /\ exc' = c.exc
          /\ \E steps \in {IF c.ret \/ c.exc # "" THEN <<>> ELSE MainSteps(mode, c.ids)} :
                /\ todo' = steps
                /\ status' = IF c.ret THEN "config_error"
                             ELSE IF c.exc # "" THEN "aborted"
                             ELSE IF Len(steps) = 0 THEN "done"
                             ELSE "running"
    /\ UNCHANGED <<mode, stations_config, remote, input, sink, last, skipped, previous, runs>>

\* fetch_multi_annual_means: one period.  download_file is called outside any
\* try: an exception of the download, of the synthesis loop or of its handler
\* leaves main.
MultiAnnualPeriod ==
    /\ status = "running"
    /\ Head(todo).op = "means"
    /\ \E ok \in BOOLEAN :
          IF ~ok
          THEN /\ status' = "aborted"
               /\ exc' = "FetchError"
               /\ UNCHANGED <<todo, sink, last>>
          ELSE \E f \in {MeansFile(RemoteMeans(remote, Head(todo).data_type, Head(todo).name),
                                    Head(todo).data_type, station_map,
                                    MeansStationIds(station_ids))} :
                  /\ last' = f
                  /\ IF f.exc # ""
                     THEN /\ status' = "aborted"
                          /\ exc' = f.exc
                          /\ UNCHANGED <<todo, sink>>
                     ELSE /\ sink' = SinkWrite(sink, f.points)
                          /\ todo' = Tail(todo)
                          /\ status' = After(<<>>)
                          /\ exc' = ""
    /\ UNCHANGED <<mode, stations_config, remote, input, station_ids, station_map,
                   skipped, previous, runs>>

\* fetch_historical_10min_data up to its loop: list_dwd_files (a download outside
\* any try) and the station_files of every station
ListHistorical ==
    /\ status = "running"
    /\ Head(todo).op = "list"
    /\ \E ok \in BOOLEAN :
          IF ~ok
          THEN /\ status' = "aborted"
               /\ exc' = "FetchError"
               /\ UNCHANGED <<todo, last>>
          ELSE \E names \in {list_dwd_files(RemoteListing(remote, Head(todo).data_type),
                                            TypePrefix(Head(todo).data_type), "_hist.zip")} :
               \E more \in {HistoricalSteps(names, station_ids, Head(todo).data_type)} :
                  /\ last' = [op |-> "list", data_type |-> Head(todo).data_type,
                              all_filenames |-> names, steps |-> more]
                  /\ todo' = more \o Tail(todo)
                  /\ status' = After(more)
                  /\ exc' = ""
    /\ UNCHANGED <<mode, stations_config, remote, input, station_ids, station_map, sink,
                   skipped, previous, runs>>

\* the points of the .txt members of an archive, written member by member
RECURSIVE WriteMembers(_, _, _, _)
WriteMembers(store, members, data_type, smap) ==
    IF Len(members) = 0 THEN store
    ELSE WriteMembers(
            IF EndsWith(members[1].filename, ".txt")
            THEN SinkWrite(store, ZipMember(members[1].text, data_type, smap).points)
            ELSE store,
            Tail(members), data_type, smap)

\* fetch_and_write_zip: a failed download is logged and the archive skipped
TxtMembers(members) == SelectSeq(members, LAMBDA m : EndsWith(m.filename, ".txt"))

FetchAndWriteZip ==
    /\ status = "running"
    /\ Head(todo).op = "zip"
    /\ \E ok \in IF Cardinality(skipped) < MaxFailures THEN BOOLEAN ELSE {TRUE} :
       \E station \in {RemoteStation(remote, Head(todo))} :
          IF ~ok \/ station = ""
          THEN /\ last' = [op |-> "skip", data_type |-> Head(todo).data_type,
                           name |-> Head(todo).name]
               /\ skipped' = skipped \cup {Head(todo).name}
               /\ UNCHANGED sink
          ELSE \E members \in {RemoteMembers(remote, Head(todo).data_type, station)} :
               \E txt \in {TxtMembers(members)} :
                  /\ sink' = WriteMembers(sink, members, Head(todo).data_type, station_map)
                  /\ last' = IF Len(txt) = 0 THEN NoLast
                             ELSE ZipMember(txt[Len(txt)].text, Head(todo).data_type,
                                            station_map)
                  /\ UNCHANGED skipped
    /\ todo' = Tail(todo)
    /\ status' = After(<<>>)
    /\ UNCHANGED <<mode, stations_config, remote, input, station_ids, station_map, exc,
                   previous, runs>>

\* the process is killed between two archives
Kill ==
    /\ status = "running"
    /\ status' = "killed"
    /\ UNCHANGED <<mode, stations_config, remote, input, station_ids, station_map,
                   exc, todo, sink, last, skipped, previous, runs>>

\* the operator runs the same mode again, over the same remote content
Rerun ==
    /\ status \in {"done", "aborted", "killed"}
    /\ runs < MaxRuns
    /\ runs' = runs + 1
    /\ status' = "start"
    /\ exc' = ""
    /\ todo' = <<>>
    /\ station_ids' = <<>>
    /\ station_map' = NoStations
    /\ last' = NoLast
    /\ skipped' = {}
    /\ previous' = [status |-> status, wrote |-> sink # {}]
    /\ UNCHANGED <<mode, stations_config, remote, input, sink>>

Next ==
    \/ ParseConfig
    \/ MultiAnnualPeriod
    \/ ListHistorical
    \/ FetchAndWriteZip
    \/ Kill
    \/ Rerun

Spec == Init /\ [][Next]_vars

(***************************************************************************)
(* The decoders and the point builder on their own: one text, made of at   *)
(* most MaxLines lines drawn from the lines below, goes through the        *)
(* pipeline of one archive (data types "precipitation" and "temperature")  *)
(* or of one multi-annual means file ("means": fetch_multi_annual_means    *)
(* after the download, with the caller's station_ids).                     *)
(***************************************************************************)
MaxLines == 2

PrecipInputLines ==
    {"STATIONS_ID;MESS_DATUM;QN;RWS_DAU_10;RWS_10;RWS_IND_10;eor",
     "91;202001010000;3;0;0.25;0;eor",
     "  91;202001010010;  3;  0; -999;  0;eor",
     "91;202001010020;3;0;x;0;eor",
     "91;202001010030;3;0;1,5;0;eor",
     "91;2020",
     "91;\"x"}

TempInputLines ==
    {"STATIONS_ID;MESS_DATUM;QN;PP_10;TT_10;TM5_10;RF_10;TD_10;eor",
     "91;202001010000;3;0;1.5;0;80;0;eor",
     "91;202001010010;3;0;-999;0;80;0;eor",
     "103;202001010020;3;0;2.5;0;-999;0;eor",
     "91;202001010030;3;0;-999;0;-999;0;eor",
     "91;202013010000;3;0;1.5;0;80;0;eor",
     "91;202001010040;3;0;1,5;0;80;0;eor",
     "91;2020",
     "91;\"x"}

MeansInputLines ==
    {"Stations_id;Bezugszeitraum;Datenquelle;Jan.;Feb.",
     MeansRow("00091", "1961-1990", "42,5"),
     MeansRow("00103", "1991-2020", "-0,5"),
     MeansRow("00091", "abcd-1990", "1"),
     MeansRow("00091", "0000-0029", "1"),
     MeansRow("00091", "1961-1990", "x"),
     MeansRow("00091", "1961-1990", "-999"),
     "00091;1961-1990;DWD;1;2"}

InputLines(kind) ==
    CASE kind = "precipitation" -> PrecipInputLines
      [] kind = "temperature" -> TempInputLines
      [] kind = "means" -> MeansInputLines

SeqsUpTo(S, n) == UNION {[1..k -> S] : k \in 0..n}

InputsOf(kind, idsets) ==
    {[kind |-> kind, lines |-> ls, text |-> Join(ls, "\n"), ids |-> ids] :
        ls \in SeqsUpTo(InputLines(kind), MaxLines), ids \in idsets}

Inputs ==
    InputsOf("precipitation", {<<>>}) \cup InputsOf("temperature", {<<>>})
    \cup InputsOf("means", {<<>>, <<"00103">>})

StationMaps == {NoStations, [id \in {"91", "00091", "103"} |-> IF id = "103" THEN "" ELSE "Aach"]}

DecodeInit ==
    /\ mode = "decode"
    /\ stations_config = ListConfig(<<>>)
    /\ remote = [means |-> "clean", zip |-> "plain", listing |-> "both"]
    /\ input \in Inputs
    /\ station_ids = input.ids
    /\ station_map \in StationMaps
    /\ status = "start"
    /\ exc = ""
    /\ todo = <<>>
    /\ sink = {}
    /\ last = NoLast
    /\ skipped = {}
    /\ previous = NoPrevious
    /\ runs = 1

\* one .txt member through the loop body of fetch_and_write_zip
DecodeTenMinutes ==
    /\ status = "start"
    /\ input.kind \in {"precipitation", "temperature"}
    /\ \E f \in {ZipMember(input.text, input.kind, station_map)} :
          /\ last' = f
          /\ sink' = SinkWrite(sink, f.points)
    /\ status' = "done"
    /\ UNCHANGED <<mode, stations_config, remote, input, station_ids, station_map,
                   exc, todo, skipped, previous, runs>>

\* one downloaded means file through the loop body of fetch_multi_annual_means
DecodeMeans ==
    /\ status = "start"
    /\ input.kind = "means"
    /\ \E f \in {MeansFile(input.text, "precipitation", station_map, station_ids)} :
          /\ last' = f
          /\ exc' = f.exc
          /\ status' = IF f.exc # "" THEN "aborted" ELSE "done"
          /\ sink' = IF f.exc # "" THEN sink ELSE SinkWrite(sink, f.points)
    /\ UNCHANGED <<mode, stations_config, remote, input, station_ids, station_map,
                   todo, skipped, previous, runs>>

DecodeNext ==
    \/ DecodeTenMinutes
    \/ DecodeMeans

DecodeSpec == DecodeInit /\ [][DecodeNext]_vars

(***************************************************************************)
(* Claims                                                                  *)
(***************************************************************************)
\* C1: in every run mode a failed fetch of one remote resource (a 10-minute
\* archive, a multi-annual means file, the historical directory listing) is
\* logged and only that resource is skipped: no run is aborted by a fetch
\* failure.
C1_FetchFailureNeverAborts == ~(status = "aborted" /\ exc = "FetchError")

\* the decoder of a kind of text, and the outcomes of its loop
Decode(kind, text) ==
    CASE kind = "precipitation" -> parse_10min_precip(text)
      [] kind = "temperature" -> parse_10min_temp(text)
      [] kind = "means" -> parse_multi_annual_means(text)

DecodeTrace(kind, text) ==
    CASE kind = "precipitation" -> PrecipTrace(text)
      [] kind = "temperature" -> TempTrace(text)
      [] kind = "means" -> MultiAnnualTrace(text)

\* a line that, decoded on its own, is dropped as malformed
MalformedLine(kind, line) ==
    \E i \in 1..Len(DecodeTrace(kind, line)) : DecodeTrace(kind, line)[i].tag = "malformed"

WithoutMalformed(kind, lines) == SelectSeq(lines, LAMBDA l : ~MalformedLine(kind, l))

\* C2: within one decode call the records produced from a text are the records
\* produced from the same text with its malformed lines removed, same count,
\* order and content, whatever characters the malformed lines hold.
C2_LineIsolation ==
    last.op \in {"zip", "means"} =>
        last.parsed = Decode(input.kind, Join(WithoutMalformed(input.kind, input.lines), "\n"))

\* a decoded record whose reference period yields no integer start year
BadPeriod(rec) == PyInt(Split(rec.reference_period.s, "-")[1]).exc # ""

\* C4: a decoded multi-annual record whose reference period yields no integer
\* start year is dropped with a warning; the run does not abort on it.
C4_BadStartYearDropped ==
    (last.op = "means" /\ \E i \in 1..Len(last.parsed) : BadPeriod(last.parsed[i]))
        => status # "aborted"

\* C5: in init mode with a non-empty roster, every multi-annual means point in
\* the sink has a station_id of the roster.
C5_MeansOnlyForRoster ==
    (mode = "init" /\ Len(station_ids) > 0) =>
        \A q \in sink :
            StartsWith(q.measurement, "multi_annual_") =>
                "station_id" \in DOMAIN q.tags /\ InSeq(q.tags.station_id.s, station_ids)

\* the columns of a 10-minute row that hold measured values, and their fields
MeasuredColumns(data_type) ==
    IF data_type = "precipitation"
    THEN {[col |-> 5, field |-> "precip_10min"]}
    ELSE {[col |-> 5, field |-> "temperature_10min"], [col |-> 7, field |-> "humidity_10min"]}

\* the rows the csv reader yields for a text
RowsOf(text) == CsvReader(Splitlines(text))

\* the place, among the records, of the record of row i
RecordIndex(trace, i) == Cardinality({j \in 1..i : trace[j].tag = "record"})

\* C3: for every valid 10-minute row that yields a record and holds the
\* sentinel -999 in a measured column, the decoded field is None (never the
\* number -999), and the point written to the sink for the record has no field
\* for that quantity.
C3_SentinelFieldAbsent ==
    last.op = "zip" =>
        \A i \in 1..Len(last.trace) :
            \A c \in MeasuredColumns(last.data_type) :
                (last.trace[i].tag = "record" /\ Strip(RowsOf(last.text)[i][c.col]) = "-999")
                    => /\ last.parsed[RecordIndex(last.trace, i)][c.field] = NoneV
                       /\ \A q \in sink :
                            PointKey(q) = PointKey(last.points[RecordIndex(last.trace, i)])
                                => c.field \notin DOMAIN q.fields

\* C3 witness: a temperature row with RF_10 = -999 was decoded to a record with
\* humidity None, and its point is in the sink with the temperature field only.
C3_SentinelRowWritten ==
    /\ last.op = "zip"
    /\ last.data_type = "temperature"
    /\ \E i \in 1..Len(last.trace) :
          /\ last.trace[i].tag = "record"
          /\ Strip(RowsOf(last.text)[i][7]) = "-999"
          /\ last.parsed[RecordIndex(last.trace, i)].humidity_10min = NoneV
          /\ \E q \in sink :
                /\ PointKey(q) = PointKey(last.points[RecordIndex(last.trace, i)])
                /\ DOMAIN q.fields = {"temperature_10min"}

\* the decoded records that pass the station filter of the synthesis
AcceptedRows(rows, ids) ==
    SelectSeq(rows, LAMBDA r : Len(ids) = 0 \/ InSeq(r.station_id.s, ids))

\* C6: every accepted multi-annual record with an integer start year fans out
\* into exactly twelve points, one per month m, with instant the first day of
\* (start_year, m) and value that month's decoded mean, ',' read as the decimal
\* separator ("1961-1990" with January "42,5" gives 1961-01-01 and 42.5); the
\* twelve instants are pairwise distinct.  (Stated for files in which every
\* record has an integer start year.)
C6_TwelvePointFanOut ==
    (last.op = "means" /\ \A i \in 1..Len(last.parsed) : ~BadPeriod(last.parsed[i])) =>
        /\ Len(last.points) = 12 * Len(AcceptedRows(last.parsed, station_ids))
        /\ \A r \in 1..Len(AcceptedRows(last.parsed, station_ids)) :
              /\ \A m \in 1..12 :
                    /\ last.points[12 * (r - 1) + m].time
                         = DateTimeV(PyInt(Split(AcceptedRows(last.parsed, station_ids)[r]
                                                    .reference_period.s, "-")[1]).val,
                                     m, 1, 0, 0)
                    /\ last.points[12 * (r - 1) + m].fields.value
                         = AcceptedRows(last.parsed, station_ids)[r][MonthNames[m]]
              /\ \A m, n \in 1..12 :
                    m # n => last.points[12 * (r - 1) + m].time
                               # last.points[12 * (r - 1) + n].time
        /\ (input.lines = <<MeansRow("00091", "1961-1990", "42,5")>> /\ station_ids = <<>>)
              => /\ last.points[1].time = DateTimeV(1961, 1, 1, 0, 0)
                 /\ last.points[1].fields.value = FloatV(425, 1)

\* C7: a well-formed 10-minute row is discarded if and only if all of its
\* measured values are the sentinel: a precipitation row exactly when RWS_10 is,
\* a temperature row exactly when both TT_10 and RF_10 are; a row that is kept
\* yields one record in which exactly the sentinel values are None.
C7_DroppedIffAllMissing ==
    last.op = "zip" =>
        \A i \in 1..Len(last.trace) :
            last.trace[i].tag \in {"record", "missing"} =>
                /\ last.trace[i].tag = "missing"
                     <=> \A c \in MeasuredColumns(last.data_type) :
                            Strip(RowsOf(last.text)[i][c.col]) = "-999"
                /\ last.trace[i].tag = "record" =>
                     /\ Len(last.trace[i].recs) = 1
                     /\ \A c \in MeasuredColumns(last.data_type) :
                            last.trace[i].recs[1][c.field] = NoneV
                                <=> Strip(RowsOf(last.text)[i][c.col]) = "-999"

\* C7 witness: one temperature text held a row with both values -999, which was
\* dropped, and a row with only RF_10 = -999, which gave a record with the
\* temperature present and the humidity None.
C7_DroppedAndPartialRows ==
    /\ last.op = "zip"
    /\ last.data_type = "temperature"
    /\ \E i \in 1..Len(last.trace) :
          /\ last.trace[i].tag = "missing"
          /\ Strip(RowsOf(last.text)[i][5]) = "-999"
          /\ Strip(RowsOf(last.text)[i][7]) = "-999"
    /\ \E i \in 1..Len(last.trace) :
          /\ last.trace[i].tag = "record"
          /\ Strip(RowsOf(last.text)[i][7]) = "-999"
          /\ last.trace[i].recs[1].temperature_10min # NoneV
          /\ last.trace[i].recs[1].humidity_10min = NoneV

\* a station id zero-padded to 5 characters
PaddedId(s) == Zeros(5 - Len(s)) \o s

\* the matching rule for the historical archives of station s and a data type
MatchesStation(href, data_type, s) ==
    /\ StartsWith(href, "10minutenwerte_"
                          \o (IF data_type = "precipitation" THEN "nieder" ELSE "TU")
                          \o "_" \o PaddedId(s) \o "_")
    /\ EndsWith(href, "_hist.zip")

\* the listing names that match, station by station in roster order
RECURSIVE MatchingArchives(_, _, _)
MatchingArchives(hrefs, data_type, ids) ==
    IF Len(ids) = 0 THEN <<>>
    ELSE SelectSeq(hrefs, LAMBDA href : MatchesStation(href, data_type, ids[1]))
         \o MatchingArchives(hrefs, data_type, Tail(ids))

\* C8: in historical mode, for a data type and the roster, the archives selected
\* are exactly the names of the directory listing that start with
\* "10minutenwerte_{nieder|TU}_{padded id}_" and end with "_hist.zip", station
\* by station; a station without a match contributes none, raises no error and
\* does not stop the stations after it.
C8_HistoricalSelection ==
    last.op = "list" =>
        /\ [i \in 1..Len(last.steps) |-> last.steps[i].name]
             = MatchingArchives(RemoteListing(remote, last.data_type), last.data_type,
                                station_ids)
        /\ \A i \in 1..Len(last.steps) :
              last.steps[i].op = "zip" /\ last.steps[i].data_type = last.data_type
        /\ status = "aborted" => exc = "FetchError"

\* C8 witness: the listing holds precipitation archives of station 00091 only;
\* the roster is 00103, 00091: nothing is selected for 00103 and the two
\* archives of 00091 are selected after it.
C8_NoMatchThenTwoArchives ==
    /\ last.op = "list"
    /\ last.data_type = "precipitation"
    /\ remote.listing = "one_station"
    /\ station_ids = <<"00103", "00091">>
    /\ Len(last.steps) = 2
    /\ status = "running"

\* C9: in every point built from a record of a decoder or of the synthesis,
\* station_id and time are not among the fields, the field keys are disjoint
\* from the tag keys station_id and station_name, and station_name is a tag only
\* when the station metadata holds a non-empty name for the station_id.
C9_FieldsDisjointFromTags ==
    last.op \in {"zip", "means"} =>
        \A i \in 1..Len(last.points) :
            /\ "station_id" \notin DOMAIN last.points[i].fields
            /\ "time" \notin DOMAIN last.points[i].fields
            /\ DOMAIN last.points[i].fields \cap {"station_id", "station_name"} = {}
            /\ "station_name" \in DOMAIN last.points[i].tags =>
                  /\ last.points[i].tags.station_id.s \in DOMAIN station_map
                  /\ station_map[last.points[i].tags.station_id.s] # ""
                  /\ last.points[i].tags.station_name
                       = StrV(station_map[last.points[i].tags.station_id.s])

\* C9 witness: one batch holds a point of a station with a name in the metadata,
\* tagged with it, and a point of a station whose name is empty, tagged with the
\* station_id only; both have fields.
C9_NamedAndUnnamedPoints ==
    /\ last.op \in {"zip", "means"}
    /\ \E i \in 1..Len(last.points) :
          /\ DOMAIN last.points[i].tags = {"station_id", "station_name"}
          /\ DOMAIN last.points[i].fields # {}
    /\ \E i \in 1..Len(last.points) :
          /\ DOMAIN last.points[i].tags = {"station_id"}
          /\ last.points[i].tags.station_id.s \in DOMAIN station_map
          /\ DOMAIN last.points[i].fields # {}

\* the lines of the .txt members of an archive, in order
RECURSIVE MemberLines(_, _, _)
MemberLines(members, data_type, smap) ==
    IF Len(members) = 0 THEN <<>>
    ELSE (IF EndsWith(members[1].filename, ".txt")
          THEN LinesOf(ZipMember(members[1].text, data_type, smap).points)
          ELSE <<>>)
         \o MemberLines(Tail(members), data_type, smap)

\* the lines one execution hands to the sink when every download of its plan
\* succeeds, in the order of the plan
RECURSIVE PlanLines(_, _, _, _)
PlanLines(steps, r, ids, smap) ==
    IF Len(steps) = 0 THEN <<>>
    ELSE CASE steps[1].op = "means" ->
                LinesOf(MeansFile(RemoteMeans(r, steps[1].data_type, steps[1].name),
                                  steps[1].data_type, smap, MeansStationIds(ids)).points)
                \o PlanLines(Tail(steps), r, ids, smap)
           [] steps[1].op = "list" ->
                PlanLines(HistoricalSteps(list_dwd_files(RemoteListing(r, steps[1].data_type),
                                                         TypePrefix(steps[1].data_type),
                                                         "_hist.zip"),
                                          ids, steps[1].data_type)
                          \o Tail(steps), r, ids, smap)
           [] steps[1].op = "zip" ->
                (IF RemoteStation(r, steps[1]) = "" THEN <<>>
                 ELSE MemberLines(RemoteMembers(r, steps[1].data_type,
                                                RemoteStation(r, steps[1])),
                                  steps[1].data_type, smap))
                \o PlanLines(Tail(steps), r, ids, smap)

\* of the lines of one key (measurement, tag set, instant), the last one
LastPerKey(lines) ==
    {lines[j] : j \in {i \in 1..Len(lines) :
                         \A k \in (i + 1)..Len(lines) : PointKey(lines[k]) # PointKey(lines[i])}}

RecognizedRoster(cfg) ==
    /\ cfg.shape = "list"
    /\ \/ \A i \in 1..Len(cfg.items) : cfg.items[i].t = "str"
       \/ \A i \in 1..Len(cfg.items) : cfg.items[i].t = "dict"

\* the run ended on an error: main logged it and returned, or an exception
\* left main
Fatal == status \in {"config_error", "aborted"}

\* C11: a station roster of an unrecognized shape (no list, or a list mixing
\* strings and objects) is fatal, and main ends before any fetch and before any
\* write to the sink; conversely a run over a recognized roster is never ended
\* by an error: malformed input and failed downloads do not stop it.
C11_OnlyRosterErrorsAreFatal ==
    /\ ~RecognizedRoster(stations_config) /\ status # "start" =>
          /\ Fatal
          /\ todo = <<>> /\ last = NoLast /\ skipped = {} /\ sink = {}
    /\ RecognizedRoster(stations_config) => ~Fatal

\* the one rule for a measured token: ',' replaced by '.', then "-999" is
\* Missing and anything else is converted to a float
ValueParser(tok) ==
    IF Replace(tok, ",", ".") = "-999" THEN Ok(NoneV) ELSE PyFloat(Replace(tok, ",", "."))

\* the stripped tokens of row i of a text: of the csv reader's row for the
\* 10-minute decoders, of the line split at ';' for the means decoder
RowTokens(kind, text, i) ==
    IF kind = "means" THEN StripAll(Split(Strip(Splitlines(text)[i]), ";"))
    ELSE StripAll(RowsOf(text)[i])

\* the columns a decoder reads measured values from (the monthly means of a
\* means row), the field each goes to, and the columns a row must have
ValueColumns(kind) ==
    CASE kind = "precipitation" -> {5}
      [] kind = "temperature" -> {5, 7}
      [] kind = "means" -> 4..15

ValueField(kind, col) ==
    CASE kind = "precipitation" -> "precip_10min"
      [] kind = "temperature" -> IF col = 5 THEN "temperature_10min" ELSE "humidity_10min"
      [] kind = "means" -> MonthNames[col - 3]

MinColumns(kind) ==
    CASE kind = "precipitation" -> 5
      [] kind = "temperature" -> 7
      [] kind = "means" -> 16

\* a data row that is well-formed apart from its measured tokens
WellFormedRow(kind, toks, out) ==
    /\ out.tag # "skip"
    /\ Len(toks) >= MinColumns(kind)
    /\ kind # "means" => Strptime(toks[2]).exc = ""
    /\ kind = "means" /\ toks[16] # "" => ValueParser(toks[16]).exc = ""

\* what the rule asks of the outcome of one row
ValueRow(kind, toks, out) ==
    WellFormedRow(kind, toks, out) =>
        IF \E c \in ValueColumns(kind) : ValueParser(toks[c]).exc # ""
        THEN out.tag = "malformed"
        ELSE /\ out.tag # "malformed"
             /\ out.tag = "record" =>
                   \A c \in ValueColumns(kind) :
                       out.recs[1][ValueField(kind, c)] = ValueParser(toks[c]).val

\* C12: the three decoders resolve every measured token by one rule: ','
\* replaced by '.', then "-999" is Missing (never the number -999), any other
\* token is converted to a float, and a token that does not convert drops its
\* line and only its line; so a 10-minute value "1,5" decodes to 1.5 and a
\* monthly mean "-999" to Missing.
C12_OneValueParser ==
    last.op \in {"zip", "means"} =>
        \A i \in 1..Len(last.trace) :
            ValueRow(input.kind, RowTokens(input.kind, input.text, i), last.trace[i])

\* the archives of a data type among the downloads of a plan
SelectedArchives(plan, data_type) ==
    {k \in 1..Len(plan) : plan[k].op = "zip" /\ plan[k].data_type = data_type}

\* a plan that fetches no directory listing and, for every station of the
\* roster and every data type, exactly one archive, named with the id padded as
\* the historical matching pads it
PaddedPlan(suffix, ids, plan) ==
    /\ \A k \in 1..Len(plan) : plan[k].op # "list"
    /\ \A data_type \in {"precipitation", "temperature"} :
          /\ Cardinality(SelectedArchives(plan, data_type)) = Len(ids)
          /\ \A i \in 1..Len(ids) :
                Cardinality({k \in SelectedArchives(plan, data_type) :
                               plan[k].name = TypePrefix(data_type) \o Zfill(ids[i], 5) \o suffix})
                    = 1

\* C13: in bootstrap ("recent", _akt.zip) and tracking ("now", _now.zip) modes
\* the plan main sets up from the roster names, for every configured station
\* (also one given with fewer than 5 characters) and every data type, exactly
\* one archive, whose name embeds the 5-character zero-padded id that the
\* historical matching uses, and holds no directory listing.
C13_RecentAndNowNamesPadded ==
    [][(status = "start" /\ status' \in {"running", "done"} /\ mode \in {"init", "tracking"})
          => PaddedPlan(IF mode = "init" THEN "_akt.zip" ELSE "_now.zip", station_ids', todo')]_vars

=============================================================================
